---- MODULE Spec2Model ----
(***************************************************************************)
(* Model of kancolle/fe.py: the fleet-expression parser                     *)
(* (FleetExpression.resolve_expr) and the four renderers                    *)
(* (FleetExpression._to_chinese_simplified, _to_chinese_traditional,        *)
(* _to_japanese, _to_english).                                              *)
(*                                                                          *)
(* Text.  An input string is a sequence of one-character strings.  A        *)
(* rendered string is a sequence of tokens: every literal phrase of an      *)
(* f-string is one token (the CJK phrases are written in romanised form,    *)
(* the original is given in the comment next to it), a formatted number is  *)
(* the token ToString(n), and the characters of a ship type are copied one  *)
(* token per character.  Concatenating the tokens gives the Python string.  *)
(***************************************************************************)
EXTENDS Integers, Sequences, FiniteSets, TLC

(***************************************************************************)
(* Bounds of the model.                                                     *)
(***************************************************************************)
\* largest digit written in a generated quantity token {n}, {n,m}, {n,}
MaxNum == 1
\* largest number of '-'-separated segments of a generated expression
MaxSegs == 2
\* largest number of resolve calls made on one pair of arguments
MaxCalls == 2

(***************************************************************************)
(* Characters and character classes of the regular expressions.            *)
(***************************************************************************)
DigitSeq == <<"0", "1", "2", "3", "4", "5", "6", "7", "8", "9">>

\* \d
Digits == {DigitSeq[i] : i \in 1..10}

Letters ==
  {"A", "B", "C", "D", "E", "F", "G", "H", "I", "J", "K", "L", "M", "N", "O",
   "P", "Q", "R", "S", "T", "U", "V", "W", "X", "Y", "Z",
   "a", "b", "c", "d", "e", "f", "g", "h", "i", "j", "k", "l", "m", "n", "o",
   "p", "q", "r", "s", "t", "u", "v", "w", "x", "y", "z"}

\* \w
WordChars == Letters \cup Digits \cup {"_"}

\* [\w|@#]
TypeChars == WordChars \cup {"|", "@", "#"}

\* [\d,]
PosChars == Digits \cup {","}

\* float('inf'), the unbounded max_count
Inf == -1

\* the character at index i of s, "" past either end
At(s, i) == IF i \in 1..Len(s) THEN s[i] ELSE ""

\* the length of the longest run of characters of class C that starts at
\* index i of s: what a greedy C* consumes there
RunLen(s, i, C) ==
  IF i < 1 \/ i > Len(s) THEN 0
  ELSE (CHOOSE k \in i..(Len(s) + 1) :
          /\ \A j \in i..(k - 1) : s[j] \in C
          /\ (k = Len(s) + 1 \/ s[k] \notin C)) - i

\* int(): the value of a non-empty string of decimal digits
RECURSIVE IntOf(_)
IntOf(ds) ==
  IF Len(ds) = 0 THEN 0
  ELSE 10 * IntOf(SubSeq(ds, 1, Len(ds) - 1))
         + ((CHOOSE n \in 1..10 : DigitSeq[n] = ds[Len(ds)]) - 1)

\* str.split(sep) for a one-character separator
RECURSIVE Split(_, _)
Split(s, sep) ==
  IF \A i \in 1..Len(s) : s[i] # sep THEN <<s>>
  ELSE LET i == CHOOSE k \in 1..Len(s) :
                  s[k] = sep /\ \A j \in 1..(k - 1) : s[j] # sep
       IN  <<SubSeq(s, 1, i - 1)>> \o Split(SubSeq(s, i + 1, Len(s)), sep)

\* sep.join(parts)
RECURSIVE Join(_, _)
Join(parts, sep) ==
  IF Len(parts) = 0 THEN <<>>
  ELSE IF Len(parts) = 1 THEN parts[1]
  ELSE parts[1] \o sep \o Join(Tail(parts), sep)

\* x in list
In(x, list) == \E i \in 1..Len(list) : list[i] = x

ANY == <<"A", "N", "Y">>

(***************************************************************************)
(* FleetExpression.resolve_expr: the four pattern searches.  A value that   *)
(* the code computes once and uses several times is passed on as a          *)
(* parameter.                                                               *)
(***************************************************************************)
\* the end of the ship-type pattern after a greedy run of k characters:
\* the run can only be followed by '{', '[' or the end at its full length,
\* since every shorter prefix is followed by a character of the run
ship_type_run(expr, k) ==
  IF k >= 1 /\ (k = Len(expr) \/ expr[k + 1] \in {"{", "["})
  THEN [found |-> TRUE, group1 |-> SubSeq(expr, 1, k)]
  ELSE [found |-> FALSE, group1 |-> <<>>]

\* re.match(r'([\w|@#]+)(?:\{|\[|$)', expr)
ship_type_match(expr) == ship_type_run(expr, RunLen(expr, 1, TypeChars))

NoQuantity ==
  [found |-> FALSE, group1 |-> <<>>, kind |-> "none", group2 |-> <<>>]

\* the pattern \{(\d+)(?:,(\d+|\*|))?\} at index i, where d digits follow
\* the brace and d2 digits follow the character after them; kind tells
\* which alternative closed the brace: "none" for {n}, "num" for {n,m},
\* "star" for {n,*}, "empty" for {n,}
quantity_close(expr, i, d, d2) ==
  LET p  == i + 1 + d
      g1 == SubSeq(expr, i + 1, i + d)
  IN  IF At(expr, i) # "{" \/ d < 1 THEN NoQuantity
      ELSE IF At(expr, p) = "}"
        THEN [found |-> TRUE, group1 |-> g1, kind |-> "none", group2 |-> <<>>]
      ELSE IF At(expr, p) # "," THEN NoQuantity
      ELSE IF d2 >= 1 /\ At(expr, p + 1 + d2) = "}"
        THEN [found |-> TRUE, group1 |-> g1, kind |-> "num",
              group2 |-> SubSeq(expr, p + 1, p + d2)]
      ELSE IF At(expr, p + 1) = "*" /\ At(expr, p + 2) = "}"
        THEN [found |-> TRUE, group1 |-> g1, kind |-> "star", group2 |-> <<"*">>]
      ELSE IF At(expr, p + 1) = "}"
        THEN [found |-> TRUE, group1 |-> g1, kind |-> "empty", group2 |-> <<>>]
      ELSE NoQuantity

quantity_digits(expr, i, d) ==
  quantity_close(expr, i, d, RunLen(expr, i + d + 2, Digits))

\* the quantity pattern tried at index i
quantity_at(expr, i) == quantity_digits(expr, i, RunLen(expr, i + 1, Digits))

\* the leftmost index at which the quantity pattern matches, or 0
quantity_first(expr) ==
  IF \E i \in 1..Len(expr) : quantity_at(expr, i).found
  THEN CHOOSE i \in 1..Len(expr) :
         /\ quantity_at(expr, i).found
         /\ \A j \in 1..(i - 1) : ~quantity_at(expr, j).found
  ELSE 0

\* re.search(r'\{(\d+)(?:,(\d+|\*|))?\}', expr): the leftmost match
quantity_match(expr) == quantity_at(expr, quantity_first(expr))

\* the end of the position pattern after '[' at index i and a greedy run of
\* r characters
position_run(expr, i, r) ==
  IF At(expr, i) = "[" /\ r >= 1 /\ At(expr, i + 1 + r) = "]"
  THEN [found |-> TRUE, group1 |-> SubSeq(expr, i + 1, i + r)]
  ELSE [found |-> FALSE, group1 |-> <<>>]

\* the pattern \[([\d,]+)\] tried at index i
position_at(expr, i) == position_run(expr, i, RunLen(expr, i + 1, PosChars))

\* the leftmost index at which the position pattern matches, or 0
position_first(expr) ==
  IF \E i \in 1..Len(expr) : position_at(expr, i).found
  THEN CHOOSE i \in 1..Len(expr) :
         /\ position_at(expr, i).found
         /\ \A j \in 1..(i - 1) : ~position_at(expr, j).found
  ELSE 0

\* re.search(r'\[([\d,]+)\]', expr): the leftmost match
position_match(expr) == position_at(expr, position_first(expr))

LevelWord == <<"l", "e", "v", "e", "l", ">">>

\* the end of the level pattern at index i, where d digits follow 'level>'
level_run(expr, i, d) ==
  IF /\ i >= 1
     /\ i + 5 <= Len(expr)
     /\ SubSeq(expr, i, i + 5) = LevelWord
     /\ d >= 1
  THEN [found |-> TRUE, group1 |-> SubSeq(expr, i + 6, i + 5 + d)]
  ELSE [found |-> FALSE, group1 |-> <<>>]

\* the pattern level>(\d+) tried at index i
level_at(expr, i) == level_run(expr, i, RunLen(expr, i + 6, Digits))

\* the leftmost index at which the level pattern matches, or 0
level_first(expr) ==
  IF \E i \in 1..Len(expr) : level_at(expr, i).found
  THEN CHOOSE i \in 1..Len(expr) :
         /\ level_at(expr, i).found
         /\ \A j \in 1..(i - 1) : ~level_at(expr, j).found
  ELSE 0

\* re.search(r'level>(\d+)', expr): the leftmost match
level_match(expr) == level_at(expr, level_first(expr))

\* FleetExpressionComponent.__init__
FleetExpressionComponent(ship_types, min_count, max_count, positions, level, negated) ==
  [ship_types |-> ship_types, min_count |-> min_count, max_count |-> max_count,
   positions |-> positions, level_condition |-> level, negated |-> negated]

\* parse_ship_types with the default list left out: a segment without a
\* leading type list is split like any other
parse_ship_types_mut(expr) ==
  LET m == ship_type_match(expr)
  IN  IF m.found
      THEN LET ship_types == Split(m.group1, "|")
           IN  IF In("*", expr) /\ ~In(ANY, ship_types)
               THEN Append(ship_types, ANY)
               ELSE ship_types
      ELSE Split(expr, "|")

\* resolve_expr, "Parse ship types"
parse_ship_types(expr) ==
  LET m == ship_type_match(expr)
  IN  IF m.found
      THEN LET ship_types == Split(m.group1, "|")
           IN  IF In("*", expr) /\ ~In(ANY, ship_types)
               THEN Append(ship_types, ANY)
               ELSE ship_types
      ELSE <<ANY>>

\* resolve_expr, "Parse quantity", for the match m: <<min_count, max_count>>
quantity_of(m) ==
  IF m.found
  THEN LET min_count == IntOf(m.group1)
       IN  IF m.kind = "none" THEN <<min_count, min_count>>
           ELSE IF m.kind \in {"empty", "star"} THEN <<min_count, Inf>>
           ELSE <<min_count, IntOf(m.group2)>>
  ELSE <<1, 1>>

parse_quantity(expr) == quantity_of(quantity_match(expr))

\* resolve_expr, "Parse positions", for the match m: int(pos) raises
\* ValueError on the empty string that split(',') yields for an empty entry
positions_of(m) ==
  IF m.found
  THEN LET parts == Split(m.group1, ",")
       IN  IF \E i \in 1..Len(parts) : parts[i] = <<>>
           THEN [raised |-> TRUE, positions |-> <<>>]
           ELSE [raised |-> FALSE,
                 positions |-> [i \in 1..Len(parts) |-> IntOf(parts[i])]]
  ELSE [raised |-> FALSE, positions |-> <<>>]

parse_positions(expr) == positions_of(position_match(expr))

\* resolve_expr, "Parse level condition", for the match m
level_of(m) == IF m.found THEN IntOf(m.group1) ELSE 0

parse_level(expr) == level_of(level_match(expr))

\* the return of resolve_expr, or the ValueError of int('')
component_of(ship_types, q, p, level, negated) ==
  [raised |-> p.raised,
   component |-> FleetExpressionComponent(ship_types, q[1], q[2], p.positions,
                                          level, negated)]

\* resolve_expr after the negation mark is stripped
resolve_stripped(expr, negated) ==
  component_of(parse_ship_types(expr), parse_quantity(expr),
               parse_positions(expr), parse_level(expr), negated)

\* FleetExpression.resolve_expr: the component of one segment, or the
\* ValueError of int('')
resolve_expr(expr0) ==
  resolve_stripped(IF At(expr0, 1) = "!" THEN Tail(expr0) ELSE expr0,
                   At(expr0, 1) = "!")

(***************************************************************************)
(* The renderers.  Lines 136, 139-140 and 142 of _to_chinese_simplified are *)
(* repeated verbatim in the other three renderers (168, 171-172, 174; 200,  *)
(* 203-204, 206; 232, 235-236, 238 with ' or ' as the joiner).              *)
(***************************************************************************)
\* has_any that only sees the components whose sole type is ANY
has_any_mut(components) ==
  \E i \in 1..Len(components) : components[i].ship_types = <<ANY>>

\* any('ANY' in comp.ship_types for comp in self.components)
has_any(components) ==
  \E i \in 1..Len(components) : In(ANY, components[i].ship_types)

\* the test of the `continue` that opens each renderer's loop
skipped(component) ==
  In(ANY, component.ship_types) /\ Len(component.ship_types) = 1

\* _convert_ship_type: returns the ship type as it is
convert_ship_type(ship_type) == ship_type

\* joiner.join(self._convert_ship_type(st) for st in ship_types if st != 'ANY')
join_ship_types(component, joiner) ==
  LET kept == SelectSeq(component.ship_types, LAMBDA st : st # ANY)
  IN  Join([i \in 1..Len(kept) |-> convert_ship_type(kept[i])], <<joiner>>)

\* f"{n}" of a count: Python prints float('inf') as inf
Fmt(n) == IF n = Inf THEN "inf" ELSE ToString(n)

\* the count phrase of _to_chinese_simplified
\* "zhiduo" is U+81F3 U+591A, "zhishao" is U+81F3 U+5C11
count_zh_Hans(component) ==
  IF component.min_count = component.max_count
    THEN <<Fmt(component.min_count)>>
  ELSE IF component.min_count = 0 /\ component.max_count # Inf
    THEN <<"zhiduo", Fmt(component.max_count)>>
  ELSE IF component.min_count > 0 /\ component.max_count = Inf
    THEN <<"zhishao", Fmt(component.min_count)>>
  ELSE <<Fmt(component.min_count), "~", Fmt(component.max_count)>>

\* the flagship marker of _to_chinese_simplified; "qijian.S" is U+65D7 U+8230
position_zh_Hans(component) ==
  IF In(0, component.positions) THEN <<"qijian.S">> ELSE <<>>

\* one appended clause of _to_chinese_simplified
\* "(dengji.S>" is ( U+7B49 U+7EA7 >, "bunengdai.S" is U+4E0D U+80FD U+5E26,
\* "xuyao" is U+9700 U+8981, "ge.S" is U+4E2A
clause_zh_Hans(component) ==
  LET ship_types == join_ship_types(component, "/")
      count      == count_zh_Hans(component)
      position   == position_zh_Hans(component)
      level      == IF component.level_condition > 0
                    THEN <<"(dengji.S>", ToString(component.level_condition), ")">>
                    ELSE <<>>
      negated    == IF component.negated THEN "bunengdai.S" ELSE "xuyao"
  IN  <<negated>> \o count \o <<"ge.S">> \o ship_types \o position \o level

\* "bunengdai qita jianzhong.S" is U+4E0D U+80FD U+5E26 U+5176 U+5B83 U+8230 U+79CD
NoOther_zh_Hans == <<"bunengdai qita jianzhong.S">>

\* the separator of the Chinese renderers, the fullwidth comma U+FF0C
Sep_zh == "<U+FF0C>"

\* FleetExpression._to_chinese_simplified
to_chinese_simplified(components) ==
  LET visible == SelectSeq(components, LAMBDA c : ~skipped(c))
      result  == [i \in 1..Len(visible) |-> clause_zh_Hans(visible[i])]
                   \o (IF ~has_any(components) THEN <<NoOther_zh_Hans>> ELSE <<>>)
  IN  Join(result, <<Sep_zh>>)

\* the count phrase of _to_chinese_traditional
count_zh_Hant(component) ==
  IF component.min_count = component.max_count
    THEN <<Fmt(component.min_count)>>
  ELSE IF component.min_count = 0 /\ component.max_count # Inf
    THEN <<"zhiduo", Fmt(component.max_count)>>
  ELSE IF component.min_count > 0 /\ component.max_count = Inf
    THEN <<"zhishao", Fmt(component.min_count)>>
  ELSE <<Fmt(component.min_count), "~", Fmt(component.max_count)>>

\* position_zh_Hant that tests for any position instead of position 0
position_zh_Hant_mut(component) ==
  IF Len(component.positions) > 0 THEN <<"qijian.T">> ELSE <<>>

\* the flagship marker of _to_chinese_traditional; "qijian.T" is U+65D7 U+8266
position_zh_Hant(component) ==
  IF In(0, component.positions) THEN <<"qijian.T">> ELSE <<>>

\* one appended clause of _to_chinese_traditional
\* "(dengji.T>" is ( U+7B49 U+7D1A >, "bunengdai.T" is U+4E0D U+80FD U+5E36,
\* "ge.T" is U+500B
clause_zh_Hant(component) ==
  LET ship_types == join_ship_types(component, "/")
      count      == count_zh_Hant(component)
      position   == position_zh_Hant(component)
      level      == IF component.level_condition > 0
                    THEN <<"(dengji.T>", ToString(component.level_condition), ")">>
                    ELSE <<>>
      negated    == IF component.negated THEN "bunengdai.T" ELSE "xuyao"
  IN  <<negated>> \o count \o <<"ge.T">> \o ship_types \o position \o level

\* "bunengdai qita jianzhong.T" is U+4E0D U+80FD U+5E36 U+5176 U+5B83 U+8266 U+7A2E
NoOther_zh_Hant == <<"bunengdai qita jianzhong.T">>

\* FleetExpression._to_chinese_traditional
to_chinese_traditional(components) ==
  LET visible == SelectSeq(components, LAMBDA c : ~skipped(c))
      result  == [i \in 1..Len(visible) |-> clause_zh_Hant(visible[i])]
                   \o (IF ~has_any(components) THEN <<NoOther_zh_Hant>> ELSE <<>>)
  IN  Join(result, <<Sep_zh>>)

\* count_ja with the finiteness test of the second branch dropped
count_ja_mut(component) ==
  IF component.min_count = component.max_count
    THEN <<Fmt(component.min_count)>>
  ELSE IF component.min_count = 0
    THEN <<"saidai", Fmt(component.max_count)>>
  ELSE IF component.min_count > 0 /\ component.max_count = Inf
    THEN <<"sukunakutomo", Fmt(component.min_count)>>
  ELSE <<Fmt(component.min_count), "~", Fmt(component.max_count)>>

\* the count phrase of _to_japanese
\* "saidai" is U+6700 U+5927, "sukunakutomo" is U+5C11 U+306A U+304F U+3068 U+3082
count_ja(component) ==
  IF component.min_count = component.max_count
    THEN <<Fmt(component.min_count)>>
  ELSE IF component.min_count = 0 /\ component.max_count # Inf
    THEN <<"saidai", Fmt(component.max_count)>>
  ELSE IF component.min_count > 0 /\ component.max_count = Inf
    THEN <<"sukunakutomo", Fmt(component.min_count)>>
  ELSE <<Fmt(component.min_count), "~", Fmt(component.max_count)>>

\* the flagship marker of _to_japanese, the same two characters as in
\* _to_chinese_traditional
position_ja(component) ==
  IF In(0, component.positions) THEN <<"qijian.T">> ELSE <<>>

\* one appended clause of _to_japanese
\* "(reberu>" is ( U+30EC U+30D9 U+30EB >, "fuka" is U+4E0D U+53EF,
\* "hitsuyou" is U+5FC5 U+8981, "seki" is U+96BB
clause_ja(component) ==
  LET ship_types == join_ship_types(component, "/")
      count      == count_ja(component)
      position   == position_ja(component)
      level      == IF component.level_condition > 0
                    THEN <<"(reberu>", ToString(component.level_condition), ")">>
                    ELSE <<>>
      negated    == IF component.negated THEN "fuka" ELSE "hitsuyou"
  IN  ship_types \o count \o <<"seki">> \o <<negated>> \o position \o level

\* "hoka no kanshu wa fuka" is U+4ED6 U+306E U+8266 U+7A2E U+306F U+4E0D U+53EF
NoOther_ja == <<"hoka no kanshu wa fuka">>

\* the separator of the Japanese renderer, the ideographic comma U+3001
Sep_ja == "<U+3001>"

\* FleetExpression._to_japanese
to_japanese(components) ==
  LET visible == SelectSeq(components, LAMBDA c : ~skipped(c))
      result  == [i \in 1..Len(visible) |-> clause_ja(visible[i])]
                   \o (IF ~has_any(components) THEN <<NoOther_ja>> ELSE <<>>)
  IN  Join(result, <<Sep_ja>>)

\* the count phrase of _to_english
count_en(component) ==
  IF component.min_count = component.max_count
    THEN <<"exactly ", Fmt(component.min_count)>>
  ELSE IF component.min_count = 0 /\ component.max_count # Inf
    THEN <<"up to ", Fmt(component.max_count)>>
  ELSE IF component.min_count > 0 /\ component.max_count = Inf
    THEN <<"at least ", Fmt(component.min_count)>>
  ELSE <<Fmt(component.min_count), " to ", Fmt(component.max_count)>>

\* the flagship marker of _to_english
position_en(component) ==
  IF In(0, component.positions) THEN <<" as flagship">> ELSE <<>>

\* one appended clause of _to_english
clause_en(component) ==
  LET ship_types == join_ship_types(component, " or ")
      count      == count_en(component)
      position   == position_en(component)
      level      == IF component.level_condition > 0
                    THEN <<" (level > ", ToString(component.level_condition), ")">>
                    ELSE <<>>
      negated    == IF component.negated THEN "Cannot have" ELSE "Require"
  IN  <<negated, " ">> \o count \o <<" ">> \o ship_types \o position \o level

NoOther_en == <<"No other ship types allowed">>

\* the separator of the English renderer
Sep_en == ", "

\* FleetExpression._to_english
to_english(components) ==
  LET visible == SelectSeq(components, LAMBDA c : ~skipped(c))
      result  == [i \in 1..Len(visible) |-> clause_en(visible[i])]
                   \o (IF ~has_any(components) THEN <<NoOther_en>> ELSE <<>>)
  IN  Join(result, <<Sep_en>>)

\* to_string whose last branch is the default language of resolve
to_string_mut(lang, components) ==
  IF lang = "zh_Hans" THEN to_chinese_simplified(components)
  ELSE IF lang = "zh_Hant" THEN to_chinese_traditional(components)
  ELSE IF lang = "ja" THEN to_japanese(components)
  ELSE IF lang = "en" THEN to_english(components)
  ELSE to_chinese_simplified(components)

\* FleetExpression.to_string
to_string(lang, components) ==
  IF lang = "zh_Hans" THEN to_chinese_simplified(components)
  ELSE IF lang = "zh_Hant" THEN to_chinese_traditional(components)
  ELSE IF lang = "ja" THEN to_japanese(components)
  ELSE to_english(components)

(***************************************************************************)
(* FleetExpression.resolve and the module-level resolve.                    *)
(***************************************************************************)
\* the loop of FleetExpression.resolve: a ValueError leaves in
\* self.components what was appended before the failing segment
RECURSIVE resolve_loop(_, _)
RECURSIVE resolve_step(_, _, _)
\* one iteration, r the outcome of resolve_expr on the first segment of todo
resolve_step(comps, todo, r) ==
  IF r.raised THEN [raised |-> TRUE, components |-> comps]
  ELSE resolve_loop(Append(comps, r.component), Tail(todo))

resolve_loop(comps, todo) ==
  IF Len(todo) = 0 THEN [raised |-> FALSE, components |-> comps]
  ELSE resolve_step(comps, todo, resolve_expr(Head(todo)))

\* the outcome of a call: the returned string, or the exception raised
Returned(value) == [raised |-> FALSE, exc |-> "", value |-> value]

Raised(exc) == [raised |-> TRUE, exc |-> exc, value |-> <<>>]

(***************************************************************************)
(* The arguments the model calls resolve with.                              *)
(***************************************************************************)
D(n) == DigitSeq[n + 1]

NegPieces == {<<>>, <<"!">>}

TypePieces == {<<>>, <<"D", "D">>, <<"D", "D", "|", "D", "E">>, ANY}

QtyPieces ==
  {<<>>}
    \cup {<<"{", D(n), "}">> : n \in 0..MaxNum}
    \cup {<<"{", D(n), ",", D(m), "}">> : n \in 0..MaxNum, m \in 0..MaxNum}
    \cup {<<"{", D(n), ",", "}">> : n \in 0..MaxNum}
    \cup {<<"{", D(n), ",", "*", "}">> : n \in 0..MaxNum}

TailPieces ==
  {<<>>, <<"[", "0", "]">>, <<"[", "1", ",", "0", "]">>, <<"[", "0", ",", "]">>,
   <<"*">>, <<"[", "1", "]", "l", "e", "v", "e", "l", ">", "7">>}

\* one segment: negation, type list, quantity, then position, star or level
MainSegs ==
  {n \o t \o q \o x :
     n \in NegPieces, t \in TypePieces, q \in QtyPieces, x \in TailPieces}

\* the segments that follow the first one
ExtraSegs == {ANY \o <<"*">>, <<"C", "V">>}

RECURSIVE ExprsOf(_)
ExprsOf(k) ==
  IF k <= 1 THEN MainSegs
  ELSE ExprsOf(k - 1)
         \cup {e \o <<"-">> \o x : e \in ExprsOf(k - 1), x \in ExtraSegs}

\* the expressions of tests/test_fe.py and of the docstring of fe.py
Samples ==
  {
   \* CL{1,3}[0]-DD{1,}
   <<"C", "L", "{", "1", ",", "3", "}", "[", "0", "]", "-", "D", "D", "{",
     "1", ",", "}">>,
   \* CVL|CL|CLT|CT{1,}-DD|DE{3,}-ANY*
   <<"C", "V", "L", "|", "C", "L", "|", "C", "L", "T", "|", "C", "T", "{",
     "1", ",", "}", "-", "D", "D", "|", "D", "E", "{", "3", ",", "}", "-",
     "A", "N", "Y", "*">>,
   \* BB{1}[0]-CL{1}-DD{4}
   <<"B", "B", "{", "1", "}", "[", "0", "]", "-", "C", "L", "{", "1", "}",
     "-", "D", "D", "{", "4", "}">>,
   \* CV|CVB{0,2}-DD{2,}
   <<"C", "V", "|", "C", "V", "B", "{", "0", ",", "2", "}", "-", "D", "D",
     "{", "2", ",", "}">>,
   \* (BB|BBV|FBB){1,2}[0]-(CV|CVB){0,2}-(DD|DE)*
   <<"(", "B", "B", "|", "B", "B", "V", "|", "F", "B", "B", ")", "{", "1",
     ",", "2", "}", "[", "0", "]", "-", "(", "C", "V", "|", "C", "V", "B",
     ")", "{", "0", ",", "2", "}", "-", "(", "D", "D", "|", "D", "E", ")",
     "*">>,
   \* #543[0]-#424-#452-#425-ANY*
   <<"#", "5", "4", "3", "[", "0", "]", "-", "#", "4", "2", "4", "-", "#",
     "4", "5", "2", "-", "#", "4", "2", "5", "-", "A", "N", "Y", "*">>,
   \* @30{4,}|@38{4,}
   <<"@", "3", "0", "{", "4", ",", "}", "|", "@", "3", "8", "{", "4", ",",
     "}">>,
   \* #646![0]-ANY*
   <<"#", "6", "4", "6", "!", "[", "0", "]", "-", "A", "N", "Y", "*">>,
   \* !(BB|BBV|FBB)
   <<"!", "(", "B", "B", "|", "B", "B", "V", "|", "F", "B", "B", ")">>,
   \* ANY[0,level>70]
   <<"A", "N", "Y", "[", "0", ",", "l", "e", "v", "e", "l", ">", "7", "0",
     "]">>,
   \* BB|BBV|FBB{1,2}[0]-CV|CVB{0,2}-DD|DE*
   <<"B", "B", "|", "B", "B", "V", "|", "F", "B", "B", "{", "1", ",", "2",
     "}", "[", "0", "]", "-", "C", "V", "|", "C", "V", "B", "{", "0", ",",
     "2", "}", "-", "D", "D", "|", "D", "E", "*">>
  }

Exprs == ExprsOf(MaxSegs) \cup Samples

Supported == {"zh_Hans", "zh_Hant", "ja", "en"}

\* the supported tags and one tag that is none of them
Langs == Supported \cup {"fr"}

(***************************************************************************)
(* State: the arguments, the fields of the FleetExpression most recently    *)
(* constructed for them, and the outcomes of the calls made so far.         *)
(***************************************************************************)
VARIABLES expr, lang, expr_list, components, returned

vars == <<expr, lang, expr_list, components, returned>>

\* FleetExpression.__init__: FleetExpression(expr, lang)
Init ==
  /\ expr \in Exprs
  /\ lang \in Langs
  /\ expr_list = <<>>
  /\ components = <<>>
  /\ returned = <<>>

\* the end of FleetExpression.resolve, r the outcome of its loop: the
\* components are kept and to_string renders them, or the ValueError
\* propagates
resolve_return(r) ==
  /\ components' = r.components
  /\ returned' = Append(returned,
                        IF r.raised THEN Raised("ValueError")
                        ELSE Returned(to_string(lang, components')))

\* FleetExpression.resolve on a FleetExpression whose components are comps
resolve_on(comps) ==
  /\ expr_list' = Split(expr, "-")
  /\ resolve_return(resolve_loop(comps, expr_list'))

\* fe.resolve() on the FleetExpression constructed last
MethodResolve ==
  /\ Len(returned) < MaxCalls
  /\ resolve_on(components)
  /\ UNCHANGED <<expr, lang>>

\* the module-level resolve(expr, lang): a new FleetExpression, whose
\* components are empty, then its resolve()
FunctionResolve ==
  /\ Len(returned) < MaxCalls
  /\ resolve_on(<<>>)
  /\ UNCHANGED <<expr, lang>>

Next == MethodResolve \/ FunctionResolve

Spec == Init /\ [][Next]_vars

(***************************************************************************)
(* Vocabulary of the claims.  A claim about "the rendered string" is about  *)
(* the outcome of the call made last, which both actions render from the    *)
(* components the state holds.                                              *)
(***************************************************************************)
Called == Len(returned) > 0

LastCall == returned[Len(returned)]

\* the last call returned a string
Rendered == Called /\ ~LastCall.raised

Output == LastCall.value

\* no call has raised
NoneRaised == \A i \in 1..Len(returned) : ~returned[i].raised

\* the separator, the closing clause and the flagship marker of a language
SepOf(l) ==
  IF l \in {"zh_Hans", "zh_Hant"} THEN Sep_zh
  ELSE IF l = "ja" THEN Sep_ja ELSE Sep_en

NoOtherOf(l) ==
  IF l = "zh_Hans" THEN "bunengdai qita jianzhong.S"
  ELSE IF l = "zh_Hant" THEN "bunengdai qita jianzhong.T"
  ELSE IF l = "ja" THEN "hoka no kanshu wa fuka"
  ELSE "No other ship types allowed"

FlagshipOf(l) ==
  IF l = "zh_Hans" THEN "qijian.S"
  ELSE IF l \in {"zh_Hant", "ja"} THEN "qijian.T"
  ELSE " as flagship"

\* the clauses of a rendered string, the closing clause included
ClausesOf(value, l) ==
  IF value = <<>> THEN <<>> ELSE Split(value, SepOf(l))

\* the string ends with the closing clause of the language
EndsWithNoOther(value, l) ==
  Len(value) > 0 /\ value[Len(value)] = NoOtherOf(l)

\* the clauses that render components
ComponentClauses(value, l) ==
  LET cs == ClausesOf(value, l)
  IN  IF EndsWithNoOther(value, l) THEN SubSeq(cs, 1, Len(cs) - 1) ELSE cs

\* the components the renderers do not skip, in order
Visible == SelectSeq(components, LAMBDA c : ~skipped(c))

\* the clause a language renders for one component
ClauseOf(l, c) ==
  IF l = "zh_Hans" THEN clause_zh_Hans(c)
  ELSE IF l = "zh_Hant" THEN clause_zh_Hant(c)
  ELSE IF l = "ja" THEN clause_ja(c)
  ELSE clause_en(c)

\* the quantity case of the claim's table: the first of the four that applies
CaseOf(n, m) ==
  IF n = m THEN "exact"
  ELSE IF n = 0 /\ m # Inf THEN "above"
  ELSE IF n > 0 /\ m = Inf THEN "below"
  ELSE "range"

\* the word that marks a case in a language ("" where the case has none)
MarkerOf(l, case) ==
  IF l \in {"zh_Hans", "zh_Hant"}
    THEN (IF case = "above" THEN "zhiduo"
          ELSE IF case = "below" THEN "zhishao"
          ELSE IF case = "range" THEN "~" ELSE "")
  ELSE IF l = "ja"
    THEN (IF case = "above" THEN "saidai"
          ELSE IF case = "below" THEN "sukunakutomo"
          ELSE IF case = "range" THEN "~" ELSE "")
  ELSE (IF case = "above" THEN "up to "
        ELSE IF case = "below" THEN "at least "
        ELSE IF case = "range" THEN " to " ELSE "exactly ")

Cases == {"exact", "above", "below", "range"}

\* the quantity phrase of the claim's table
PhraseOf(l, n, m) ==
  LET case == CaseOf(n, m)
  IN  IF case = "exact"
        THEN (IF l = "en" THEN <<"exactly ", Fmt(n)>> ELSE <<Fmt(n)>>)
      ELSE IF case = "above" THEN <<MarkerOf(l, case), Fmt(m)>>
      ELSE IF case = "below" THEN <<MarkerOf(l, case), Fmt(n)>>
      ELSE <<Fmt(n), MarkerOf(l, case), Fmt(m)>>

\* the number of tokens of a clause that precede its quantity phrase
CountOffset(l, c) ==
  IF l \in {"zh_Hans", "zh_Hant"} THEN 1
  ELSE IF l = "ja" THEN Len(join_ship_types(c, "/"))
  ELSE 2

(***************************************************************************)
(* C1.  For every rendered component with min_count n and max_count m and   *)
(* each of the four languages, the clause carries the quantity phrase of    *)
(* exactly one case: exact when n = m, else bounded-above when n = 0 and m  *)
(* is finite, else bounded-below when n > 0 and m is unbounded, else range; *)
(* the phrase is the one of the table, and the clause holds the marker of   *)
(* no other case.  The case depends on (n, m) only, so it is the same in    *)
(* the four languages.                                                      *)
(***************************************************************************)
C1_QuantityCase ==
  Rendered /\ lang \in Supported =>
    \A k \in 1..Len(Visible) :
      LET c      == Visible[k]
          clause == ClausesOf(Output, lang)[k]
          phrase == PhraseOf(lang, c.min_count, c.max_count)
          off    == CountOffset(lang, c)
          case   == CaseOf(c.min_count, c.max_count)
      IN  /\ Len(clause) > off + Len(phrase)
          /\ SubSeq(clause, off + 1, off + Len(phrase)) = phrase
          /\ clause[off + Len(phrase) + 1] \in {"ge.S", "ge.T", "seki", " "}
          /\ \A other \in Cases \ {case} :
               MarkerOf(lang, other) # "" => ~In(MarkerOf(lang, other), clause)

\* C1 witness: a Japanese clause for min 0 and unbounded max, the range case
C1_Witness ==
  /\ Rendered
  /\ lang = "ja"
  /\ \E k \in 1..Len(Visible) :
       /\ Visible[k].min_count = 0
       /\ Visible[k].max_count = Inf
       /\ In("~", ClausesOf(Output, lang)[k])

(***************************************************************************)
(* C4.  For every expression and each of the four languages, the rendered   *)
(* string ends with the language's "no other ship types allowed" clause if  *)
(* and only if no parsed component's ship_types contains ANY, an ANY that   *)
(* the parser appended because of a '*' included.                           *)
(***************************************************************************)
C4_NoOtherClause ==
  Rendered /\ lang \in Supported =>
    (EndsWithNoOther(Output, lang)
       <=> ~\E i \in 1..Len(components) :
              \E j \in 1..Len(components[i].ship_types) :
                components[i].ship_types[j] = ANY)

\* C4 witness: a rendered clause for a component whose ANY was appended
\* after a concrete type, and no closing clause
C4_Witness ==
  /\ Rendered
  /\ lang \in Supported
  /\ Len(Output) > 0
  /\ ~EndsWithNoOther(Output, lang)
  /\ \E i \in 1..Len(components) :
       /\ Len(components[i].ship_types) > 1
       /\ components[i].ship_types[Len(components[i].ship_types)] = ANY

(***************************************************************************)
(* C6.  In each of the four languages the clause rendered for a component   *)
(* contains the flagship marker if and only if 0 is in the component's      *)
(* positions, whatever other indices are present, and the clause is the one *)
(* rendered for the same component with every other index removed.          *)
(***************************************************************************)
C6_FlagshipMarker ==
  Rendered /\ lang \in Supported =>
    \A k \in 1..Len(Visible) :
      LET c      == Visible[k]
          clause == ClausesOf(Output, lang)[k]
          zero   == \E i \in 1..Len(c.positions) : c.positions[i] = 0
      IN  /\ In(FlagshipOf(lang), clause) <=> zero
          /\ clause = ClauseOf(lang, [c EXCEPT !.positions =
                                        IF zero THEN <<0>> ELSE <<>>])

\* C6 witness: a clause with the marker for positions [1, 0]
C6_Witness ==
  /\ Rendered
  /\ lang = "zh_Hant"
  /\ \E k \in 1..Len(Visible) :
       /\ Visible[k].positions = <<1, 0>>
       /\ In("qijian.T", ClausesOf(Output, lang)[k])

(***************************************************************************)
(* C8.  As claimed: resolve called with a language tag outside the four     *)
(* supported values fails with an UnsupportedLanguage error and returns no  *)
(* rendered string.                                                         *)
(***************************************************************************)
C8_Original ==
  lang \notin Supported =>
    \A i \in 1..Len(returned) :
      returned[i].raised /\ returned[i].exc = "UnsupportedLanguage"

(***************************************************************************)
(* C8, amended.  resolve called with a language tag outside the four        *)
(* supported values raises no UnsupportedLanguage error: to_string falls    *)
(* through to the English renderer, so whenever the call returns, it        *)
(* returns the English rendering of the components.                         *)
(***************************************************************************)
C8_FallsBackToEnglish ==
  lang \notin Supported =>
    /\ \A i \in 1..Len(returned) : returned[i].exc # "UnsupportedLanguage"
    /\ Rendered => Output = to_english(components)

\* C8 witness: an unsupported tag rendered with the English words
C8_Witness ==
  /\ lang \notin Supported
  /\ Rendered
  /\ Len(Output) > 0
  /\ Output[1] \in {"Require", "Cannot have", "No other ship types allowed"}

(***************************************************************************)
(* C9.  As claimed: resolve called with the empty expression string fails   *)
(* with a MalformedExpression error instead of returning a string.          *)
(***************************************************************************)
C9_Original ==
  expr = <<>> =>
    \A i \in 1..Len(returned) :
      returned[i].raised /\ returned[i].exc = "MalformedExpression"

(***************************************************************************)
(* C9, amended.  resolve called with the empty expression string does not   *)
(* fail: the one empty segment parses to the placeholder component (sole    *)
(* type ANY, min = max = 1, no position, no level, not negated), which is   *)
(* not rendered, and the call returns the empty string.                     *)
(***************************************************************************)
C9_EmptyRendersEmpty ==
  expr = <<>> =>
    /\ \A i \in 1..Len(returned) :
         ~returned[i].raised /\ returned[i].value = <<>>
    /\ \A i \in 1..Len(components) :
         components[i] = [ship_types |-> <<ANY>>, min_count |-> 1,
                          max_count |-> 1, positions |-> <<>>,
                          level_condition |-> 0, negated |-> FALSE]
    /\ Called => Len(components) >= 1

\* C9 witness: the empty expression has been resolved
C9_Witness ==
  /\ expr = <<>>
  /\ Called
  /\ LastCall = Returned(<<>>)
  /\ Len(components) >= 1

(***************************************************************************)
(* The claims below speak of the component parsed from a segment: they are  *)
(* read in the states where the last call returned and self.components      *)
(* holds one component per segment, component i parsed from segment i.      *)
(***************************************************************************)
Aligned == Rendered /\ Len(components) = Len(expr_list)

\* the quantity the claim gives for one segment
ClaimedQuantity(segment) ==
  LET m == quantity_match(segment)
  IN  IF m.found
      THEN (IF m.kind = "none" THEN <<IntOf(m.group1), IntOf(m.group1)>>
            ELSE IF m.kind = "num" THEN <<IntOf(m.group1), IntOf(m.group2)>>
            ELSE <<IntOf(m.group1), Inf>>)
      ELSE IF segment \in {<<"*">>, ANY \o <<"*">>} THEN <<0, Inf>>
      ELSE <<1, 1>>

(***************************************************************************)
(* C2.  Parsing one segment sets the quantity so: {n} gives min = max = n,  *)
(* {n,m} gives min = n and max = m, {n,} gives min = n and max unbounded,   *)
(* and a segment with no quantity token gives min = max = 1, unless it is   *)
(* a bare '*' token ('ANY*' included), which gives min = 0 and max          *)
(* unbounded.                                                               *)
(***************************************************************************)
C2_Quantity ==
  Aligned =>
    \A i \in 1..Len(components) :
      <<components[i].min_count, components[i].max_count>>
        = ClaimedQuantity(expr_list[i])

\* a segment made of a type list directly followed by one trailing '*'
IsTypeListStar(segment) ==
  /\ Len(segment) >= 2
  /\ segment[Len(segment)] = "*"
  /\ \A j \in 1..(Len(segment) - 1) : segment[j] \in TypeChars

\* the ship_types the claim gives for such a segment
ClaimedTypes(segment) ==
  LET tokens == Split(SubSeq(segment, 1, Len(segment) - 1), "|")
  IN  IF In(ANY, tokens) THEN tokens ELSE Append(tokens, ANY)

(***************************************************************************)
(* C3.  For every segment made of a concrete type list directly followed    *)
(* by a trailing '*', for example DD|DE* , the parsed ship_types is the     *)
(* list of the '|'-separated concrete tokens in source order, with ANY      *)
(* appended after them when it was not already in the list.                 *)
(***************************************************************************)
C3_StarKeepsTypes ==
  Aligned =>
    \A i \in 1..Len(components) :
      IsTypeListStar(expr_list[i]) =>
        components[i].ship_types = ClaimedTypes(expr_list[i])

\* a placeholder of the claim: sole type ANY and no other constraint
IsPlaceholder(c) ==
  /\ c.ship_types = <<ANY>>
  /\ c.positions = <<>>
  /\ c.level_condition = 0
  /\ ~c.negated
  /\ c.min_count = 1
  /\ c.max_count = 1

\* a valid expression: it is not empty and every segment, after its
\* negation mark, begins with a ship-type list
ValidExpr ==
  /\ expr # <<>>
  /\ \A i \in 1..Len(expr_list) :
       ship_type_match(IF At(expr_list[i], 1) = "!" THEN Tail(expr_list[i])
                       ELSE expr_list[i]).found

(***************************************************************************)
(* C5.  For all valid expressions the render output is a non-empty string   *)
(* whose number of component clauses equals the number of non-placeholder   *)
(* components; a sole-ANY component that carries another constraint is not  *)
(* a placeholder and is rendered as a clause.  Stated for the expressions   *)
(* that have a non-placeholder component, where there is a clause to        *)
(* render.                                                                  *)
(***************************************************************************)
C5_ClauseCount ==
  /\ Rendered
  /\ lang \in Supported
  /\ ValidExpr
  /\ \E i \in 1..Len(components) : ~IsPlaceholder(components[i])
  => /\ Output # <<>>
     /\ Len(ComponentClauses(Output, lang))
          = Cardinality({i \in 1..Len(components) : ~IsPlaceholder(components[i])})

(***************************************************************************)
(* C7.  Resolution is idempotent and keeps no hidden state between calls:   *)
(* after any number of resolve() calls on one FleetExpression its           *)
(* components sequence holds exactly one component per '-'-separated        *)
(* segment, in source order, and every call returns the same string as the  *)
(* first.  Stated for the expressions whose first call returns a non-empty  *)
(* string.                                                                  *)
(***************************************************************************)
C7_Idempotent ==
  Called /\ NoneRaised /\ returned[1].value # <<>> =>
    /\ \A i \in 1..Len(returned) : returned[i] = returned[1]
    /\ Len(components) = Len(Split(expr, "-"))
    /\ \A i \in 1..Len(components) :
         components[i] = resolve_expr(Split(expr, "-")[i]).component

(***************************************************************************)
(* C10.  Parsing is permissive and never fails: for every non-empty         *)
(* expression string every segment yields a component, and characters the   *)
(* field patterns do not recognise, an empty entry of a position list such  *)
(* as [0,] included, are ignored rather than causing an error.              *)
(***************************************************************************)
C10_NeverFails ==
  expr # <<>> =>
    \A i \in 1..Len(returned) :
      /\ ~returned[i].raised
      /\ i = Len(returned) => Len(components) >= Len(Split(expr, "-"))
====
